---- MODULE Spec2Model ----
(***************************************************************************)
(* Model of the Unreal Engine introspection code of LiveSplit.Redfall      *)
(* (src/src/unreal.rs): the reflective walker over the foreign process'    *)
(* class / property records, the name decoder and the caching pointer-path *)
(* resolver UnrealPointer.                                                 *)
(*                                                                         *)
(* The foreign memory is a set of mapped pages plus the cells that hold a  *)
(* non-zero value; a read of an address in an unmapped page fails.  The    *)
(* foreign process changes its memory between two calls of the resolver.   *)
(***************************************************************************)
EXTENDS Integers, Sequences, FiniteSets, TLC

VARIABLES
    mem,            \* the foreign memory [pages, cells]
    input,          \* the specifiers handed to UnrealPointer::new
    fields,         \* UnrealPointer.fields : [1..CAP -> specifier]
    depth,          \* UnrealPointer.depth
    cache,          \* UnrealPointer.cache  : [offsets, resolved_offsets]
    obs,            \* what the call that returned last did, against mem
    failed_lookup,  \* field whose lookup failed in the latest find_offsets
    walk,           \* the walker of one UClass::get_field_offset call
    att,            \* the executable header and the latest Module::attach
    tick            \* the main loop of the auto splitter (src/src/lib.rs)

vars == <<mem, input, fields, depth, cache, obs, failed_lookup, walk, att, tick>>

-----------------------------------------------------------------------------
(* Bounds of the model *)

\* const generic CAP of UnrealPointer<CAP>
CAP == 2
\* longest prefix of the yielded properties a walk keeps (longer is cut)
MaxYield == 3

-----------------------------------------------------------------------------
(* Option values *)

None == [ok |-> FALSE, val |-> 0]
Some(v) == [ok |-> TRUE, val |-> v]

NULL == 0

\* `let x = v; body`: body is given the value of v, evaluated once
Bind(v, body(_)) == CHOOSE r \in { body(x) : x \in {v} } : TRUE

-----------------------------------------------------------------------------
(* Program constants *)

\* const CSTR: usize = 128
CSTR == 128

\* Offsets::new()
Offsets ==
    [ uobject_class                |-> \h10,
      uclass_super_field           |-> \h40,
      uclass_property_link         |-> \h50,
      uproperty_fname              |-> \h28,
      uproperty_offset_internal    |-> \h4C,
      uproperty_property_link_next |-> \h58 ]

\* the Module handed to every call: 64-bit target, name pool at 0x1100
Module ==
    [ pointer_size |-> 8,
      offsets      |-> Offsets,
      g_engine     |-> \h1000,
      fname_base   |-> \h1100 ]

\* attach returned None
NoModule ==
    [ ok |-> FALSE, pointer_size |-> 0, offsets |-> Offsets,
      g_engine |-> 0, fname_base |-> 0 ]

size_of_ptr(module) == module.pointer_size

\* size_of::<u16>()
SizeOfU16 == 2

\* half the width of a u32: u32::MAX + 1 = U16 * U16
U16 == 2^16

-----------------------------------------------------------------------------
(* Foreign memory *)

PageOf(a) == a \div (2^12)

Mapped(m, a) == PageOf(a) \in m.pages

Cell(m, a) == IF a \in DOMAIN m.cells THEN m.cells[a] ELSE 0

\* Process::read / Process::read_pointer of one value at address a
Read(m, a) == IF Mapped(m, a) THEN Some(Cell(m, a)) ELSE None

\* Process::read of n consecutive bytes at a (one read, fails as a whole)
ReadBytes(m, a, n) ==
    IF Mapped(m, a) /\ Mapped(m, a + n - 1)
    THEN Some([j \in 1..n |-> Cell(m, a + j - 1)])
    ELSE None

-----------------------------------------------------------------------------
(* Strings: a &str is the sequence of its characters *)

Ascii ==
    [ c \in {"0","1","2","3","4","5","6","7","8","9","a","b","c","d","e","f",
             "A","B","C","D","E","F","x","X","+","-","P","w","L","v"} |->
        CASE c = "0" -> 48 [] c = "1" -> 49 [] c = "2" -> 50 [] c = "3" -> 51
          [] c = "4" -> 52 [] c = "5" -> 53 [] c = "6" -> 54 [] c = "7" -> 55
          [] c = "8" -> 56 [] c = "9" -> 57
          [] c = "a" -> 97 [] c = "b" -> 98 [] c = "c" -> 99 [] c = "d" -> 100
          [] c = "e" -> 101 [] c = "f" -> 102
          [] c = "A" -> 65 [] c = "B" -> 66 [] c = "C" -> 67 [] c = "D" -> 68
          [] c = "E" -> 69 [] c = "F" -> 70
          [] c = "x" -> 120 [] c = "X" -> 88 [] c = "+" -> 43 [] c = "-" -> 45
          [] c = "P" -> 80 [] c = "w" -> 119 [] c = "L" -> 76 [] c = "v" -> 118 ]

\* str::as_bytes
Bytes(s) == [j \in 1..Len(s) |-> Ascii[s[j]]]

\* char::to_digit(radix): the digit value of c, or -1
ToDigit(c, radix) ==
    LET b == Ascii[c]
        d == IF b >= 48 /\ b <= 57 THEN b - 48
             ELSE IF b >= 97 /\ b <= 102 THEN b - 97 + 10
             ELSE IF b >= 65 /\ b <= 70 THEN b - 65 + 10
             ELSE -1
    IN  IF d >= 0 /\ d < radix THEN d ELSE -1

RECURSIVE Digits(_, _, _, _)
\* the digit loop of u32::from_str_radix: checked acc * radix + digit, the
\* accumulator held as hi * 2^16 + lo
Digits(s, radix, hi, lo) ==
    IF s = <<>> THEN Some(hi * U16 + lo)
    ELSE LET d   == ToDigit(Head(s), radix)
             lo2 == lo * radix + d
             hi2 == hi * radix + lo2 \div U16
         IN  IF d < 0 THEN None
             ELSE IF hi2 >= U16 THEN None
             ELSE Digits(Tail(s), radix, hi2, lo2 % U16)

\* u32::from_str_radix(s, radix).ok(); also str::parse::<u32>() for radix 10
from_str_radix(s, radix) ==
    IF s = <<>> THEN None
    ELSE IF Head(s) \in {"+", "-"} /\ Tail(s) = <<>> THEN None
    ELSE IF Head(s) = "+" THEN Digits(Tail(s), radix, 0, 0)
    ELSE Digits(s, radix, 0, 0)

\* str::strip_prefix("0x")
strip_prefix_0x(s) ==
    IF Len(s) >= 2 /\ s[1] = "0" /\ s[2] = "x"
    THEN Some(SubSeq(s, 3, Len(s)))
    ELSE None

\* offset_from_string with the hexadecimal digits read in radix 10
offset_from_string_dec(field) ==
    LET rem == strip_prefix_0x(field)
    IN  IF rem.ok THEN from_str_radix(rem.val, 10)
        ELSE from_str_radix(field, 10)

\* offset_from_string of find_offsets
offset_from_string(field) ==
    LET rem == strip_prefix_0x(field)
    IN  IF rem.ok THEN from_str_radix(rem.val, 16)
        ELSE from_str_radix(field, 10)

-----------------------------------------------------------------------------
(* Name Resolver *)

RECURSIVE NulCut(_, _, _)
\* index of the last byte before the first nul of s[j..n], n when it has none:
\* the first half of the range is searched, and then the second
NulCut(s, j, n) ==
    IF j > n THEN n
    ELSE IF j = n THEN (IF s[j] = 0 THEN j - 1 ELSE n)
    ELSE LET mid == (j + n) \div 2
         IN  Bind(NulCut(s, j, mid), LAMBDA left :
                 IF left < mid THEN left ELSE NulCut(s, mid + 1, n))

\* as_bytes of a buffer set_len was not called on
as_bytes_nolen(string, len, n) ==
    LET k == NulCut(string, 1, n)
    IN  [j \in 1..k |-> string[j]]

\* ArrayCString::set_len followed by ArrayCString::as_bytes: the first len
\* bytes of the buffer, cut at the first nul byte
as_bytes(string, len, n) ==
    LET k == NulCut(string, 1, IF len < n THEN len ELSE n)
    IN  [j \in 1..k |-> string[j]]

\* UProperty::get_fname::<N>
get_fname(m, module, property, n) ==
    LET a0           == property + module.offsets.uproperty_fname
        name_offset  == Read(m, a0)
        chunk_offset == Read(m, a0 + SizeOfU16)
        slot         == module.fname_base
                          + size_of_ptr(module) * (chunk_offset.val + 2)
        chunk        == Read(m, slot)
        addr         == chunk.val + name_offset.val * SizeOfU16
        header       == Read(m, addr)
        string_size  == header.val \div (2^6)
        string       == ReadBytes(m, addr + SizeOfU16, n)
    IN  IF ~(name_offset.ok /\ chunk_offset.ok)
            THEN [ok |-> FALSE, val |-> <<>>, reads |-> 1]
        ELSE IF ~chunk.ok  THEN [ok |-> FALSE, val |-> <<>>, reads |-> 2]
        ELSE IF ~header.ok THEN [ok |-> FALSE, val |-> <<>>, reads |-> 3]
        ELSE IF ~string.ok THEN [ok |-> FALSE, val |-> <<>>, reads |-> 4]
        ELSE [ok |-> TRUE, val |-> as_bytes(string.val, string_size, n),
              reads |-> 4]

\* matches that accepts every decoded name
matches_any(name, field_name) == TRUE

\* ArrayCString::matches
matches(name, field_name) == name = Bytes(field_name)

\* UProperty::get_offset
get_offset(m, module, property) ==
    Read(m, property + module.offsets.uproperty_offset_internal)

-----------------------------------------------------------------------------
(* Reflective Walker *)

Min(a, b) == IF a < b THEN a ELSE b

\* a walker that has not been called
IdleWalk ==
    [ pc               |-> "idle",
      self             |-> NULL,
      drain            |-> FALSE,
      field_name       |-> <<>>,
      current_class    |-> NULL,
      current_property |-> None,
      yielded          |-> <<>>,
      result           |-> None,
      reads            |-> 0 ]

\* entry of UClass::get_field_offset (drain: properties() consumed to its end)
StartWalk(class, field_name, drain) ==
    [ IdleWalk EXCEPT !.pc = "first", !.self = class, !.drain = drain,
                      !.field_name = field_name, !.current_class = class ]

\* foreign reads are counted up to this number
MaxReads == 40

Count(w, k) == Min(w.reads + k, MaxReads)

\* Yield that hands the properties over in reverse order
Yield_front(w, prop) ==
    IF Len(w.yielded) < MaxYield THEN <<prop>> \o w.yielded ELSE w.yielded

\* the properties a consumer has received, kept up to MaxYield of them
Yield(w, prop) ==
    IF Len(w.yielded) < MaxYield THEN Append(w.yielded, prop) ELSE w.yielded

\* FirstStep that gives up at a null property_link, the parent not tried
FirstStep_nosuper(m, module, w) ==
    LET link == Read(m, w.current_class + module.offsets.uclass_property_link)
    IN  IF link.ok /\ link.val # NULL
            THEN [w EXCEPT !.pc = "next", !.current_property = Some(link.val),
                           !.reads = Count(w, 1)]
        ELSE [w EXCEPT !.pc = "next", !.current_property = None,
                       !.reads = Count(w, 1)]

\* one iteration of `while val.is_none()` in UClass::properties
FirstStep(m, module, w) ==
    LET link == Read(m, w.current_class + module.offsets.uclass_property_link)
        sup  == Read(m, w.current_class + module.offsets.uclass_super_field)
    IN  IF ~link.ok
            THEN [w EXCEPT !.pc = "next", !.current_property = None,
                           !.reads = Count(w, 1)]
        ELSE IF link.val # NULL
            THEN [w EXCEPT !.pc = "next", !.current_property = Some(link.val),
                           !.reads = Count(w, 1)]
        ELSE IF ~sup.ok \/ sup.val = NULL
            THEN [w EXCEPT !.pc = "next", !.current_property = None,
                           !.reads = Count(w, 2)]
        ELSE [w EXCEPT !.current_class = sup.val, !.reads = Count(w, 2)]

\* one call of the iter::from_fn closure of UClass::properties, and the
\* predicate of find in UClass::get_field_offset on the item it yields
NextStep(m, module, w) ==
    IF ~w.current_property.ok
    THEN [w EXCEPT !.pc = "done", !.result = None]
    ELSE
      LET prop == w.current_property.val
          nxt  == Read(m, prop + module.offsets.uproperty_property_link_next)
          name == get_fname(m, module, prop, CSTR)
          off  == get_offset(m, module, prop)
      IN  IF ~nxt.ok
              THEN [w EXCEPT !.pc = "done", !.result = None,
                             !.reads = Count(w, 1)]
          ELSE IF w.drain
              THEN [w EXCEPT !.current_property =
                                 IF nxt.val = NULL THEN None ELSE Some(nxt.val),
                             !.yielded = Yield(w, prop),
                             !.reads = Count(w, 1)]
          ELSE IF name.ok /\ matches(name.val, w.field_name)
              THEN [w EXCEPT !.pc = "done", !.result = off,
                             !.current_property =
                                 IF nxt.val = NULL THEN None ELSE Some(nxt.val),
                             !.yielded = Yield(w, prop),
                             !.reads = Count(w, 2 + name.reads)]
          ELSE [w EXCEPT !.current_property =
                             IF nxt.val = NULL THEN None ELSE Some(nxt.val),
                         !.yielded = Yield(w, prop),
                         !.reads = Count(w, 1 + name.reads)]

\* one step of a running walker
WStep(m, module, w) ==
    IF w.pc = "first" THEN FirstStep(m, module, w)
    ELSE IF w.pc = "next" THEN NextStep(m, module, w)
    ELSE w

\* Steps after which a walker over an unchanging memory has been in the same
\* position twice: its position is its pc and the address it stands on, and
\* it stands on NULL or on the value of a cell.
Fuel(m) == 2 * (Cardinality(DOMAIN m.cells) + 2)

RECURSIVE Run(_, _, _, _)
\* the walker run for at most fuel steps, the first half of them and then the
\* rest; pc "first"/"next" on return: the call never returns
Run(m, module, w, fuel) ==
    IF w.pc = "done" \/ fuel = 0 THEN w
    ELSE IF fuel = 1 THEN WStep(m, module, w)
    ELSE Bind(Run(m, module, w, fuel \div 2),
              LAMBDA w2 : Run(m, module, w2, fuel - fuel \div 2))

\* UClass::get_field_offset
UClass_get_field_offset(m, module, class, field_name) ==
    Run(m, module, StartWalk(class, field_name, FALSE), Fuel(m))

\* UObject::get_uclass
get_uclass(m, module, object) ==
    LET r == Read(m, object + module.offsets.uobject_class)
    IN  IF r.ok /\ r.val # NULL THEN r ELSE None

\* UObject::get_field_offset: [ok, val, reads, hang]
get_field_offset(m, module, object, field_name) ==
    Bind(get_uclass(m, module, object), LAMBDA class :
      IF ~class.ok
      THEN [ok |-> FALSE, val |-> 0, reads |-> 1, hang |-> FALSE]
      ELSE Bind(UClass_get_field_offset(m, module, class.val, field_name),
             LAMBDA w :
               [ok |-> w.pc = "done" /\ w.result.ok, val |-> w.result.val,
                reads |-> Min(1 + w.reads, MaxReads),
                hang |-> w.pc # "done"]))

-----------------------------------------------------------------------------
(* Pointer-Path Resolver *)

\* the static slot every path of the model is anchored to
base_address == Module.g_engine

\* new that keeps the number of specifiers it was given as the depth
new_untruncated(flds) ==
    [ fields |-> [i \in 1..CAP |-> IF i <= Len(flds) THEN flds[i] ELSE <<>>],
      depth  |-> Len(flds),
      cache  |-> [offsets |-> [i \in 1..CAP |-> 0], resolved_offsets |-> 0] ]

\* UnrealPointer::new: [fields, depth, cache]
new(flds) ==
    [ fields |-> [i \in 1..CAP |-> IF i <= Len(flds) THEN flds[i] ELSE <<>>],
      depth  |-> Min(Len(flds), CAP),
      cache  |-> [offsets |-> [i \in 1..CAP |-> 0], resolved_offsets |-> 0] ]

RECURSIVE Hops(_, _, _, _, _, _)
\* `for &i in &cache.offsets[..x] { addr = read_pointer(addr + i)? }`
Hops(m, addr, offsets, k, x, reads) ==
    IF k > x THEN [ok |-> TRUE, val |-> addr, reads |-> reads]
    ELSE Bind(Read(m, addr + offsets[k]), LAMBDA r :
           IF ~r.ok THEN [ok |-> FALSE, val |-> 0, reads |-> reads + 1]
           ELSE Hops(m, r.val, offsets, k + 1, x, reads + 1))

\* Rechase that stops at the object the base pointer points to
Rechase_base(m, c) ==
    LET b == Read(m, base_address)
    IN  IF ~b.ok THEN [ok |-> FALSE, val |-> 0, reads |-> 1]
        ELSE [ok |-> TRUE, val |-> b.val, reads |-> 1]

\* current_uobject of find_offsets: the base pointer, then the cached offsets
Rechase(m, c) ==
    Bind(Read(m, base_address), LAMBDA b :
      IF ~b.ok THEN [ok |-> FALSE, val |-> 0, reads |-> 1]
      ELSE Hops(m, b.val, c.offsets, 1, c.resolved_offsets, 1))

\* Advance that counts a field twice
Advance_twice(resolved_offsets) == resolved_offsets + 2

\* `cache.resolved_offsets += 1`
Advance(resolved_offsets) == resolved_offsets + 1

\* Cached that always writes the first slot of the cache
Cached_first(c, i, off) ==
    [ offsets          |-> [c.offsets EXCEPT ![1] = off],
      resolved_offsets |-> Advance(c.resolved_offsets) ]

\* `cache.offsets[i] = current_offset; cache.resolved_offsets += 1`
Cached(c, i, off) ==
    [ offsets          |-> [c.offsets EXCEPT ![i] = off],
      resolved_offsets |-> Advance(c.resolved_offsets) ]

\* LoopDone that leaves the last field out
LoopDone_early(i, dep) == i >= dep

\* the range `cache.resolved_offsets..self.depth` is exhausted
LoopDone(i, dep) == i > dep

\* the lookup a literal specifier does without
NoLookup == [ok |-> FALSE, val |-> 0, reads |-> 0, hang |-> FALSE]

RECURSIVE ResolveLoop(_, _, _, _, _)
\* `for i in cache.resolved_offsets..self.depth` of find_offsets, from field i
\* (fields are numbered from 1); st = [ret, cache, object, reads, lookups,
\* failed]
ResolveLoop(m, flds, dep, i, st) ==
    IF LoopDone(i, dep) THEN [st EXCEPT !.ret = "some"]
    ELSE
      Bind(offset_from_string(flds[i]), LAMBDA lit :
      Bind(IF lit.ok THEN NoLookup
           ELSE get_field_offset(m, Module, st.object, flds[i]), LAMBDA look :
        LET looked == Append(st.lookups, <<i, st.object>>)
        IN  IF ~lit.ok /\ look.hang
                THEN [st EXCEPT !.ret = "hang", !.lookups = looked,
                          !.reads = Min(st.reads + look.reads, MaxReads)]
            ELSE IF ~lit.ok /\ ~look.ok
                THEN [st EXCEPT !.ret = "none", !.lookups = looked,
                          !.failed = i,
                          !.reads = Min(st.reads + look.reads, MaxReads)]
            ELSE
              LET off == IF lit.ok THEN lit.val ELSE look.val
                  c2  == Cached(st.cache, i, off)
                  r   == Min(st.reads + look.reads + 1, MaxReads)
                  l   == IF lit.ok THEN st.lookups ELSE looked
              IN  Bind(Read(m, st.object + off), LAMBDA hop :
                    IF ~hop.ok
                    THEN [st EXCEPT !.ret = "none", !.cache = c2,
                                    !.lookups = l, !.reads = r]
                    ELSE Bind([st EXCEPT !.cache = c2, !.lookups = l,
                                         !.reads = r, !.object = hop.val],
                           LAMBDA st2 :
                             ResolveLoop(m, flds, dep, i + 1, st2)))))

\* FullyResolved that never takes the fast path
FullyResolved_over(c, dep) == c.resolved_offsets > dep

\* the fast path of find_offsets: nothing is left to resolve
FullyResolved(c, dep) == c.resolved_offsets = dep

\* UnrealPointer::find_offsets: [ret, cache, object, reads, lookups, failed]
find_offsets(m, flds, dep, c) ==
    LET st0 == [ret |-> "none", cache |-> c, object |-> 0, reads |-> 0,
                lookups |-> <<>>, failed |-> 0]
    IN  IF FullyResolved(c, dep) THEN [st0 EXCEPT !.ret = "some"]
        ELSE Bind(Rechase(m, c), LAMBDA cur :
               IF ~cur.ok THEN [st0 EXCEPT !.reads = cur.reads]
               ELSE Bind([st0 EXCEPT !.object = cur.val, !.reads = cur.reads],
                      LAMBDA st :
                        ResolveLoop(m, flds, dep, c.resolved_offsets + 1, st)))

\* read_pointer_path that reads the value at the first offset
read_pointer_path_short(m, address, path, n) ==
    IF n = 0 THEN None ELSE Read(m, address + path[1])

\* Process::read_pointer_path(address, pointer_size, path): every offset but
\* the last is a pointer hop, the value is read at the last one; no offset,
\* no value
read_pointer_path(m, address, path, n) ==
    IF n = 0 THEN None
    ELSE Bind(Hops(m, address, path, 1, n - 1, 0), LAMBDA h :
           IF ~h.ok THEN None ELSE Read(m, h.val + path[n]))

\* UnrealPointer::deref: the find_offsets record, with the value read
deref(m, flds, dep, c) ==
    Bind(find_offsets(m, flds, dep, c), LAMBDA f :
      IF f.ret # "some" THEN [f |-> f, ret |-> f.ret, val |-> 0]
      ELSE Bind(Read(m, base_address), LAMBDA b :
             IF ~b.ok THEN [f |-> f, ret |-> "none", val |-> 0]
             ELSE Bind(read_pointer_path(m, b.val, f.cache.offsets, dep),
                    LAMBDA v :
                      IF ~v.ok THEN [f |-> f, ret |-> "none", val |-> 0]
                      ELSE [f |-> f, ret |-> "some", val |-> v.val])))

-----------------------------------------------------------------------------
(* The foreign process *)

\* records of the target: two objects, their classes, two properties
O1 == \h5000
O2 == \h5100
ClassD == \h3000
ClassB == \h3100
PropA == \h4000
PropB == \h4100
\* an address in a page the target never maps
Wild == \h9000
\* the name pool: chunk 0 and the entries "Pw" (index 0) and "Lv" (index 2)
Chunk0 == \h2000
IndexPw == 0
IndexLv == 2

Pw == <<"P", "w">>
Lv == <<"L", "v">>

\* O1 is a ClassD whose field Pw (0x18) points to O2, a ClassB whose field Lv
\* (0x20) holds the value; ClassD adds no property to its parent ClassB,
\* whose list is PropA "Pw" -> PropB "Lv".
BaseCells ==
    ( base_address :> O1 ) @@
    ( Module.fname_base + 8 * 2 :> Chunk0 ) @@
    ( Chunk0 :> 2 * 64 + 1 ) @@ ( Chunk0 + 2 :> 80 ) @@ ( Chunk0 + 3 :> 119 ) @@
    ( Chunk0 + 4 :> 2 * 64 ) @@ ( Chunk0 + 6 :> 76 ) @@ ( Chunk0 + 7 :> 118 ) @@
    ( ClassD + \h40 :> ClassB ) @@ ( ClassD + \h50 :> NULL ) @@
    ( ClassB + \h40 :> NULL ) @@ ( ClassB + \h50 :> PropA ) @@
    ( PropA + \h28 :> IndexPw ) @@ ( PropA + \h2A :> 0 ) @@
    ( PropA + \h4C :> \h18 ) @@ ( PropA + \h58 :> PropB ) @@
    ( PropB + \h28 :> IndexLv ) @@ ( PropB + \h2A :> 0 ) @@
    ( PropB + \h4C :> \h20 ) @@ ( PropB + \h58 :> NULL ) @@
    ( O1 + \h10 :> ClassD ) @@ ( O1 + \h18 :> O2 ) @@
    ( O2 + \h10 :> ClassB ) @@ ( O2 + \h20 :> 77 )

BasePages == {1, 2, 3, 4, 5}

\* what the target may store into a cell between two calls
Writes ==
    { <<base_address, O1>>, <<base_address, Wild>>,
      <<ClassD + \h50, NULL>>, <<ClassD + \h50, PropB>>,
      <<ClassB + \h40, NULL>>, <<ClassB + \h40, ClassD>>,
      <<ClassB + \h50, PropA>>, <<ClassB + \h50, NULL>>,
      <<ClassB + \h50, Wild>>,
      <<PropB + \h58, NULL>>, <<PropB + \h58, PropA>>,
      <<PropB + \h58, Wild>>,
      <<PropB + \h28, IndexLv>>, <<PropB + \h28, IndexPw>>,
      <<O2 + \h20, 77>>, <<O2 + \h20, 78>> }

\* pages the target may unmap and map again: the names, the objects
Unmappable == {2, 5}

\* the target stores a value
Store(a, v) ==
    /\ <<a, v>> \in Writes
    /\ Cell(mem, a) # v
    /\ mem' = [mem EXCEPT !.cells[a] = v]

\* the target unmaps a page, or maps it again
Remap(p) ==
    /\ p \in Unmappable
    /\ mem' = [mem EXCEPT !.pages = IF p \in @ THEN @ \ {p} ELSE @ \cup {p}]

-----------------------------------------------------------------------------
(* Specification *)

\* the paths a caller hands to UnrealPointer::new
PathInputs ==
    { <<Pw, Lv>>,
      << <<"0","x","1","8">>, Lv >>,
      << Pw, <<"3","2">> >>,
      << <<"0","x","5","7","0">>, <<"1","4","6","4">> >>,
      << <<"1","4","6","4">>, <<"0","X","1","8">> >>,
      << Pw, Lv, <<"0","x","5","7","0">> >>,
      << >> }

\* no call has returned since the memory changed
NoCall ==
    [ op |-> "none", ret |-> "none", val |-> 0, reads |-> 0,
      lookups |-> <<>>, pre |-> new(<<>>).cache, resume |-> 0,
      find |-> "none" ]

\* Module::attach has not been called
NoAttach ==
    [ pe       |-> [machine |-> "unreadable", size_of_image |-> None],
      called   |-> "none",
      module   |-> NoModule,
      scans    |-> <<>>,
      g_engine |-> None ]

\* the main loop has not been entered
NoTick == [pc |-> "off"]

\* the classes and names a walker is started on
WalkClasses == {ClassD, ClassB}
WalkNames == {Pw, Lv, <<"0", "X", "1", "8">>}

Init ==
    /\ mem = [pages |-> BasePages, cells |-> BaseCells]
    /\ input \in PathInputs
    /\ LET p == new(input)
       IN  fields = p.fields /\ depth = p.depth /\ cache = p.cache
    /\ obs = NoCall
    /\ failed_lookup = 0
    /\ walk = IdleWalk
    /\ att = NoAttach
    /\ tick = NoTick

\* the program is inside a call that never returns
Hung == obs.ret = "hang"

\* the foreign process changes its memory between two calls; it is followed
\* no further once the program is inside a call that never returns
MemChange ==
    /\ ~Hung
    /\ walk.pc \in {"idle", "done"}
    /\ \/ \E w \in Writes : Store(w[1], w[2])
       \/ \E p \in Unmappable : Remap(p)
    /\ obs' = NoCall
    /\ walk' = IdleWalk
    /\ UNCHANGED <<input, fields, depth, cache, failed_lookup, att, tick>>

\* a call of UnrealPointer::find_offsets
FindOffsets ==
    /\ ~Hung
    /\ \E f \in {find_offsets(mem, fields, depth, cache)} :
           /\ cache' = f.cache
           /\ failed_lookup' = f.failed
           /\ obs' = [ op |-> "find_offsets", ret |-> f.ret, val |-> 0,
                       reads |-> f.reads, lookups |-> f.lookups,
                       pre |-> cache, resume |-> failed_lookup,
                       find |-> f.ret ]
    /\ UNCHANGED <<mem, input, fields, depth, walk, att, tick>>

\* a call of UnrealPointer::deref
Deref ==
    /\ ~Hung
    /\ \E d \in {deref(mem, fields, depth, cache)} :
           /\ cache' = d.f.cache
           /\ failed_lookup' = d.f.failed
           /\ obs' = [ op |-> "deref", ret |-> d.ret, val |-> d.val,
                       reads |-> d.f.reads, lookups |-> d.f.lookups,
                       pre |-> cache, resume |-> failed_lookup,
                       find |-> d.f.ret ]
    /\ UNCHANGED <<mem, input, fields, depth, walk, att, tick>>

Next == MemChange \/ FindOffsets \/ Deref

Spec == Init /\ [][Next]_vars

\* a call of UClass::get_field_offset, or of UClass::properties consumed to
\* its end, is entered
WalkStart ==
    /\ walk.pc \in {"idle", "done"}
    /\ \E class \in WalkClasses, name \in WalkNames, drain \in BOOLEAN :
          walk' = StartWalk(class, name, drain)
    /\ UNCHANGED <<mem, input, fields, depth, cache, obs, failed_lookup, att, tick>>

\* the walker takes its next step; the memory stands still during a walk
WalkStep ==
    /\ walk.pc \in {"first", "next"}
    /\ walk' = WStep(mem, Module, walk)
    /\ UNCHANGED <<mem, input, fields, depth, cache, obs, failed_lookup, att, tick>>

\* the walker on its own: no path is resolved
WalkInit == Init /\ depth = 0

WalkNext == MemChange \/ WalkStart \/ WalkStep

WalkSpec == WalkInit /\ [][WalkNext]_vars

\* a walker that can take a step eventually takes it
WalkFair == WalkSpec /\ WF_vars(WalkStep)

-----------------------------------------------------------------------------
(* Properties of the Pointer-Path Resolver, checked under Spec.  Fields are
   numbered from 1 here: field i is index i - 1 of the source. *)

\* C1: in every state reachable from new() through find_offsets / deref calls
\* against any foreign memory, resolved_offsets <= depth <= CAP.
C1_ResolvedWithinDepth ==
    cache.resolved_offsets <= depth /\ depth <= CAP

\* a call has resolved a path of CAP fields to its end
C1_Witness ==
    obs.op # "none" /\ depth = CAP /\ cache.resolved_offsets = depth

\* C2: across any call, whether it succeeds or fails, resolved_offsets never
\* decreases and an offset cached before the call is not changed by it.
C2_ForwardOnly ==
    [][ /\ cache'.resolved_offsets >= cache.resolved_offsets
        /\ \A j \in 1..cache.resolved_offsets :
              cache'.offsets[j] = cache.offsets[j] ]_vars

\* a failing call that started from a partially resolved path and cached one
\* more offset
C2_Witness ==
    /\ obs.op # "none" /\ obs.ret = "none"
    /\ obs.pre.resolved_offsets >= 1
    /\ cache.resolved_offsets > obs.pre.resolved_offsets

\* C3: when the lookup of symbolic field i fails, the call returns failure
\* with the fields before i resolved and the offsets cached before the call
\* unchanged; the next call looks up no field before i and starts at field i
\* on the object reached from the base pointer through the cached offsets in
\* the memory of that call (no lookup at all when that object is unreachable).
C3_Resumable ==
    /\ (obs.op # "none" /\ failed_lookup > 0) =>
          /\ obs.find = "none"
          /\ cache.resolved_offsets = failed_lookup - 1
          /\ \A j \in 1..obs.pre.resolved_offsets :
                cache.offsets[j] = obs.pre.offsets[j]
    /\ (obs.op # "none" /\ obs.resume > 0) =>
          LET i == obs.resume
              obj[k \in 0..(i - 1)] ==
                  IF k = 0 THEN Read(mem, base_address)
                  ELSE IF obj[k - 1].ok
                       THEN Read(mem, obj[k - 1].val + obs.pre.offsets[k])
                       ELSE None
          IN  /\ obs.pre.resolved_offsets = i - 1
              /\ \A k \in 1..Len(obs.lookups) : obs.lookups[k][1] >= i
              /\ IF obj[i - 1].ok
                 THEN /\ obs.lookups # <<>>
                      /\ obs.lookups[1] = <<i, obj[i - 1].val>>
                 ELSE obs.lookups = <<>>

\* the lookup of the second field failed, and the call after it resolved the
\* path to its end with a single lookup
C3_Witness ==
    /\ obs.op # "none" /\ obs.resume = 2
    /\ obs.find = "some" /\ Len(obs.lookups) = 1
    /\ cache.resolved_offsets = depth

\* C4: once a path is resolved to its end, every later find_offsets call
\* returns success with no reflective lookup and no foreign read and leaves
\* the cache as it was, whatever the memory holds.
C4_Idempotent ==
    (obs.op = "find_offsets" /\ obs.pre.resolved_offsets = depth) =>
        /\ obs.ret = "some"
        /\ obs.lookups = <<>>
        /\ obs.reads = 0
        /\ cache = obs.pre

\* a later call on a resolved path of CAP fields, the base pointer now wild
C4_Witness ==
    /\ obs.op = "find_offsets" /\ obs.ret = "some"
    /\ depth = CAP /\ obs.pre.resolved_offsets = depth
    /\ Cell(mem, base_address) = Wild

\* C5: whenever find_offsets returns Some(()), resolved_offsets = depth.
C5_SuccessMeansResolved ==
    (obs.op # "none" /\ obs.find = "some") =>
        cache.resolved_offsets = depth

\* a find_offsets call that resolved fields itself and returned success
C5_Witness ==
    /\ obs.op = "find_offsets" /\ obs.ret = "some"
    /\ obs.pre.resolved_offsets < depth

\* C6: deref returns none when find_offsets fails in that call or the base
\* pointer or a hop cannot be read, and otherwise the value stored at the
\* address reached from the base pointer through all depth cached offsets,
\* the last one added and not dereferenced.
C6_DerefAllOrNothing ==
    (obs.op = "deref" /\ obs.ret # "hang") =>
        LET at[k \in 0..CAP] ==
                IF k = 0 THEN Read(mem, base_address)
                ELSE IF at[k - 1].ok
                     THEN Read(mem, at[k - 1].val + cache.offsets[k])
                     ELSE None
        IN  IF obs.find = "some" /\ depth >= 1 /\ at[depth].ok
            THEN /\ obs.ret = "some"
                 /\ obs.val = at[depth].val
                 /\ cache.resolved_offsets = depth
            ELSE obs.ret = "none"

\* deref returned the value the target stored after the path was resolved
C6_Witness ==
    /\ obs.op = "deref" /\ obs.ret = "some" /\ obs.val = 78
    /\ obs.pre.resolved_offsets = depth /\ depth = 2

\* C7: a specifier that is an integer literal (decimal, or hexadecimal after
\* 0x) is cached as its value with no reflective lookup for that field; every
\* other specifier is looked up by name.
C7_LiteralsNotLookedUp ==
    obs.op # "none" =>
        LET literal == ( <<"0", "x", "1", "8">> :> 24 )
                    @@ ( <<"3", "2">> :> 32 )
                    @@ ( <<"0", "x", "5", "7", "0">> :> 1392 )
                    @@ ( <<"1", "4", "6", "4">> :> 1464 )
            looked  == { obs.lookups[k][1] : k \in 1..Len(obs.lookups) }
        IN  /\ \A i \in (obs.pre.resolved_offsets + 1)..cache.resolved_offsets :
                  IF fields[i] \in DOMAIN literal
                  THEN cache.offsets[i] = literal[fields[i]] /\ i \notin looked
                  ELSE i \in looked
            /\ \A i \in looked : fields[i] \notin DOMAIN literal

\* "0x570" and "1464" were cached as 0x570 and 1464 by a call without lookup
C7_Witness ==
    /\ obs.op # "none" /\ obs.lookups = <<>>
    /\ obs.pre.resolved_offsets = 0
    /\ cache.resolved_offsets = 2
    /\ cache.offsets[1] = 1392 /\ cache.offsets[2] = 1464

\* C15: new() with more specifiers than CAP truncates the path: depth is
\* min(number of specifiers, CAP), the fields are the first depth specifiers,
\* no specifier beyond them is looked up, and every call does what it does on
\* the path made of the first CAP specifiers alone.
C15_TruncatedToCap ==
    LET n == IF Len(input) < CAP THEN Len(input) ELSE CAP
        t == new(SubSeq(input, 1, n))
    IN  /\ depth = n
        /\ \A i \in 1..CAP : fields[i] = IF i <= n THEN input[i] ELSE <<>>
        /\ cache.resolved_offsets <= n
        /\ obs.op # "none" =>
              /\ \A k \in 1..Len(obs.lookups) : obs.lookups[k][1] <= n
              /\ LET f == find_offsets(mem, t.fields, t.depth, obs.pre)
                 IN  /\ f.ret = obs.find
                     /\ f.cache = cache
                     /\ f.reads = obs.reads
                     /\ f.lookups = obs.lookups

\* a path of three specifiers, CAP being two, was dereferenced to the value
\* its first two specifiers lead to
C15_Witness ==
    /\ Len(input) > CAP
    /\ obs.op = "deref" /\ obs.ret = "some" /\ obs.val = 77
    /\ cache.resolved_offsets = CAP

\* C20: whenever find_offsets returns none, resolved_offsets < depth holds on
\* return: the call in which the last offset is cached returns success.
C20_FailureMeansIncomplete ==
    (obs.op # "none" /\ obs.find = "none") =>
        cache.resolved_offsets < depth

-----------------------------------------------------------------------------
(* Properties of the Reflective Walker, checked under WalkSpec *)

\* C8: get_field_offset scans the properties in chain order and returns the
\* byte offset of the first one whose decoded name equals the requested name
\* (a name that cannot be decoded does not match): the scan stops at that
\* property, and the result is none when no scanned property matches.
C8_FirstMatchWins ==
    (walk.pc = "done" /\ ~walk.drain) =>
        LET ys     == walk.yielded
            nm(p)  == get_fname(mem, Module, p, CSTR)
            hit(p) == nm(p).ok /\ nm(p).val = Bytes(walk.field_name)
        IN  /\ \A k \in 1..(Len(ys) - 1) :
                  /\ ys[k + 1] = Cell(mem, ys[k] + \h58)
                  /\ ~hit(ys[k])
            /\ IF ys # <<>> /\ hit(ys[Len(ys)])
               THEN walk.result = Read(mem, ys[Len(ys)] + \h4C)
               ELSE ~walk.result.ok

\* both properties of the list are named "Pw": the offset of the first one is
\* returned and the second one is never scanned
C8_Witness ==
    /\ walk.pc = "done" /\ ~walk.drain /\ walk.field_name = Pw
    /\ Cell(mem, ClassB + \h50) = PropA
    /\ Cell(mem, PropB + \h28) = IndexPw
    /\ walk.yielded = <<PropA>>
    /\ walk.result = Some(24)

\* C9 as claimed: a class with a null first-property pointer yields the list
\* of its nearest ancestor with a non-null one, and the sequence is empty only
\* when the parent chain ends before such an ancestor is found.
C9_AsClaimed ==
    (walk.pc = "done" /\ walk.drain) =>
        LET link(c) == Read(mem, c + \h50)
            sup(c)  == Read(mem, c + \h40)
            anc[k \in 0..Cardinality(WalkClasses)] ==
                IF k = 0 THEN Some(walk.self)
                ELSE IF /\ anc[k - 1].ok
                        /\ link(anc[k - 1].val) = Some(NULL)
                        /\ sup(anc[k - 1].val).ok
                        /\ sup(anc[k - 1].val).val # NULL
                     THEN sup(anc[k - 1].val)
                     ELSE None
            found == { k \in DOMAIN anc :
                          /\ anc[k].ok /\ link(anc[k].val).ok
                          /\ link(anc[k].val).val # NULL }
        IN  /\ \A k \in found :
                  /\ walk.yielded # <<>>
                  /\ walk.yielded[1] = link(anc[k].val).val
            /\ walk.yielded = <<>> => found = {}

\* C9, amended: the sequence is also empty when the next-property pointer of
\* the first property of that ancestor cannot be read; otherwise it starts at
\* that first property and follows the next-property pointers.
C9_Fallthrough ==
    (walk.pc = "done" /\ walk.drain) =>
        LET link(c) == Read(mem, c + \h50)
            sup(c)  == Read(mem, c + \h40)
            anc[k \in 0..Cardinality(WalkClasses)] ==
                IF k = 0 THEN Some(walk.self)
                ELSE IF /\ anc[k - 1].ok
                        /\ link(anc[k - 1].val) = Some(NULL)
                        /\ sup(anc[k - 1].val).ok
                        /\ sup(anc[k - 1].val).val # NULL
                     THEN sup(anc[k - 1].val)
                     ELSE None
            found == { k \in DOMAIN anc :
                          /\ anc[k].ok /\ link(anc[k].val).ok
                          /\ link(anc[k].val).val # NULL }
            ys    == walk.yielded
        IN  /\ \A k \in found :
                  IF Read(mem, link(anc[k].val).val + \h58).ok
                  THEN ys # <<>> /\ ys[1] = link(anc[k].val).val
                  ELSE ys = <<>>
            /\ found = {} => ys = <<>>
            /\ \A k \in 1..(Len(ys) - 1) : ys[k + 1] = Cell(mem, ys[k] + \h58)

\* ClassD has a null first-property pointer and the walk over it yielded the
\* two properties of its parent ClassB
C9_Witness ==
    /\ walk.pc = "done" /\ walk.drain /\ walk.self = ClassD
    /\ Cell(mem, ClassD + \h50) = NULL
    /\ walk.yielded = <<PropA, PropB>>

\* C18 as claimed: properties() yields the starting property and each
\* property reached through the next-property pointers, in chain order, and
\* every property record whose address was obtained before the stop is yielded
\* exactly once.
C18_AsClaimed ==
    (walk.pc = "done" /\ walk.drain) =>
        LET ys       == walk.yielded
            obtained == ({ Cell(mem, ys[k] + \h58) : k \in 1..Len(ys) }
                            \ {NULL})
                        \cup (IF walk.current_property.ok
                              THEN {walk.current_property.val} ELSE {})
        IN  /\ \A k \in 1..(Len(ys) - 1) : ys[k + 1] = Cell(mem, ys[k] + \h58)
            /\ \A j, k \in 1..Len(ys) : ys[j] = ys[k] => j = k
            /\ \A p \in obtained : \E k \in 1..Len(ys) : ys[k] = p

\* C18, amended: when the walk stops, the property records whose next-property
\* pointer was read have been yielded exactly once each, in chain order; the
\* walk stops at a null next pointer or at the first record whose
\* next-property pointer cannot be read, and that record is not yielded.
C18_YieldedChain ==
    (walk.pc = "done" /\ walk.drain) =>
        LET ys      == walk.yielded
            next(p) == Read(mem, p + \h58)
        IN  /\ \A k \in 1..Len(ys) : next(ys[k]).ok
            /\ \A k \in 1..(Len(ys) - 1) :
                  ys[k + 1] = next(ys[k]).val /\ ys[k + 1] # NULL
            /\ \A j, k \in 1..Len(ys) : ys[j] = ys[k] => j = k
            /\ ys # <<>> =>
                  LET last == next(ys[Len(ys)]).val
                  IN  IF last = NULL THEN ~walk.current_property.ok
                      ELSE /\ walk.current_property = Some(last)
                           /\ ~next(last).ok
            /\ walk.current_property.ok =>
                  /\ ~next(walk.current_property.val).ok
                  /\ \A k \in 1..Len(ys) : ys[k] # walk.current_property.val

\* the walk yielded PropA and PropB and stopped at the record after PropB,
\* whose next-property pointer cannot be read
C18_Witness ==
    /\ walk.pc = "done" /\ walk.drain /\ walk.self = ClassB
    /\ Cell(mem, PropB + \h58) = Wild
    /\ walk.yielded = <<PropA, PropB>>
    /\ walk.current_property = Some(Wild)

\* C10: every walker call returns: a walk that has been entered reaches its
\* end, whatever the foreign memory holds.
C10_WalkReturns ==
    (walk.pc = "first") ~> (walk.pc = "done")

-----------------------------------------------------------------------------
(* Module Locator *)

\* a `??` position of a signature
AnyByte == -1

\* Signature::new of the pattern, and the offset of the displacement field
GENGINE_1 ==
    [ sig    |-> << \h48, \h8B, \h05, AnyByte, AnyByte, AnyByte, AnyByte,
                    \h8B, \h88, AnyByte, AnyByte, AnyByte, AnyByte, \h41 >>,
      offset |-> 3 ]

GENGINE_2 ==
    [ sig    |-> << \hA8, \h01, \h75, AnyByte, \h48, \hC7, \h05 >>,
      offset |-> 7 ]

FNAME_POOL ==
    << [ sig    |-> << \h74, \h09, \h48, \h8D, \h15, AnyByte, AnyByte, AnyByte, AnyByte,
                       \hEB, \h16, AnyByte, AnyByte >>,
         offset |-> 5 ],
       [ sig    |-> << \h89, \h5C, \h24, AnyByte, \h89, \h44, \h24, AnyByte,
                       \h74, AnyByte, \h48, \h8D, \h15 >>,
         offset |-> 13 ],
       [ sig    |-> << \h57, \h0F, \hB7, \hF8, \h74, AnyByte, \hB8, AnyByte, AnyByte, AnyByte,
                       AnyByte, \h8B, \h44 >>,
         offset |-> 7 ] >>

\* SIG_GENGINE of Addresses::init
SIG_GENGINE == << \hA8, \h01, \h75, AnyByte, \h48, \hC7, \h05 >>

\* the pattern sig is found at address a
SigAt(m, sig, a) ==
    \A j \in 1..Len(sig) :
        /\ Mapped(m, a + j - 1)
        /\ sig[j] = AnyByte \/ Cell(m, a + j - 1) = sig[j]

\* Signature::scan_process_range(process, (base, size)): the first address of
\* the range the pattern is found at, whole inside the range
scan_process_range(m, sig, range) ==
    LET hits == { a \in range[1]..(range[1] + range[2] - Len(sig)) :
                      SigAt(m, sig, a) }
    IN  IF hits = {} THEN None
        ELSE Some(CHOOSE a \in hits : \A b \in hits : a <= b)

\* read_i32 with the four bytes taken in big-endian order
read_i32_be(m, addr) ==
    LET b == ReadBytes(m, addr, 4)
    IN  IF ~b.ok THEN None
        ELSE Some(b.val[4] + b.val[3] * 2^8 + b.val[2] * 2^16
                  + (IF b.val[1] >= 2^7 THEN b.val[1] - 2^8 ELSE b.val[1])
                      * 2^24)

\* process.read::<i32>(addr): four bytes, little endian, two's complement
read_i32(m, addr) ==
    LET b == ReadBytes(m, addr, 4)
    IN  IF ~b.ok THEN None
        ELSE Some(b.val[1] + b.val[2] * 2^8 + b.val[3] * 2^16
                  + (IF b.val[4] >= 2^7 THEN b.val[4] - 2^8 ELSE b.val[4])
                      * 2^24)

\* pointer_size_of that knows no 32-bit machine
pointer_size_of_64(machine) ==
    IF machine = "x86_64" THEN Some(8) ELSE None

\* MachineType::pointer_size
pointer_size_of(machine) ==
    IF machine = "x86_64" THEN Some(8)
    ELSE IF machine = "i386" THEN Some(4)
    ELSE None

\* `addr + after + process.read::<i32>(addr).ok()?`
anchor(m, addr, after) ==
    LET disp == read_i32(m, addr)
    IN  IF ~disp.ok THEN None ELSE Some(addr + after + disp.val)

\* the g_engine block of attach with GENGINE_2 tried before GENGINE_1
attach_g_engine_swapped(m, module_range) ==
    Bind(scan_process_range(m, GENGINE_2.sig, module_range), LAMBDA s2 :
      IF s2.ok
      THEN [r |-> anchor(m, s2.val + GENGINE_2.offset, 8), scans |-> <<2>>]
      ELSE Bind(scan_process_range(m, GENGINE_1.sig, module_range),
             LAMBDA s1 :
               IF s1.ok
               THEN [r     |-> anchor(m, s1.val + GENGINE_1.offset, 4),
                     scans |-> <<2, 1>>]
               ELSE [r |-> None, scans |-> <<2, 1>>]))

\* the g_engine block of attach: [r, scans], scans the signatures scanned for
\* (1 GENGINE_1, 2 GENGINE_2), in the order of the scans
attach_g_engine(m, module_range) ==
    Bind(scan_process_range(m, GENGINE_1.sig, module_range), LAMBDA s1 :
      IF s1.ok
      THEN [r |-> anchor(m, s1.val + GENGINE_1.offset, 4), scans |-> <<1>>]
      ELSE Bind(scan_process_range(m, GENGINE_2.sig, module_range),
             LAMBDA s2 :
               IF s2.ok
               THEN [r     |-> anchor(m, s2.val + GENGINE_2.offset, 8),
                     scans |-> <<1, 2>>]
               ELSE [r |-> None, scans |-> <<1, 2>>]))

RECURSIVE find_map(_, _, _, _)
\* `FNAME_POOL.iter().find_map(|(sig, offset)| Some(scan? + *offset))` from
\* entry k on; entry k is signature 2 + k in scans
find_map(m, module_range, k, scans) ==
    IF k > Len(FNAME_POOL) THEN [r |-> None, scans |-> scans]
    ELSE Bind(scan_process_range(m, FNAME_POOL[k].sig, module_range),
           LAMBDA s :
             IF s.ok
             THEN [r     |-> Some(s.val + FNAME_POOL[k].offset),
                   scans |-> Append(scans, 2 + k)]
             ELSE find_map(m, module_range, k + 1, Append(scans, 2 + k)))

\* the fname_base block of attach: [r, scans]
attach_fname_base(m, module_range) ==
    Bind(find_map(m, module_range, 1, <<>>), LAMBDA f :
      IF ~f.r.ok THEN f
      ELSE [r |-> anchor(m, f.r.val, 4), scans |-> f.scans])

\* Module::attach: [module, scans]; pe is what the executable header at
\* main_module_address gives
attach(m, pe, main_module_address) ==
    LET fail(scans) == [module |-> NoModule, scans |-> scans]
    IN  IF pe.machine = "unreadable" THEN fail(<<>>)
        ELSE Bind(pointer_size_of(pe.machine), LAMBDA pointer_size :
          IF ~pointer_size.ok THEN fail(<<>>)
          ELSE IF ~pe.size_of_image.ok THEN fail(<<>>)
          ELSE
            LET module_range == <<main_module_address, pe.size_of_image.val>>
            IN  Bind(attach_g_engine(m, module_range), LAMBDA g :
                  IF ~g.r.ok THEN fail(g.scans)
                  ELSE Bind(attach_fname_base(m, module_range), LAMBDA f :
                    IF ~f.r.ok THEN fail(g.scans \o f.scans)
                    ELSE [ module |-> [ ok           |-> TRUE,
                                        pointer_size |-> pointer_size.val,
                                        offsets      |-> Offsets,
                                        g_engine     |-> g.r.val,
                                        fname_base   |-> f.r.val ],
                           scans  |-> g.scans \o f.scans ])))

\* Addresses::init of src/src/lib.rs; main_module is what get_module_range
\* gives
Addresses_init(m, main_module) ==
    IF ~main_module.ok THEN None
    ELSE Bind(scan_process_range(m, SIG_GENGINE, main_module.val), LAMBDA s :
           IF ~s.ok THEN None
           ELSE LET ptr == s.val + 7
                IN  Bind(read_i32(m, ptr), LAMBDA d :
                      IF ~d.ok THEN None ELSE Some(ptr + 8 + d.val)))

-----------------------------------------------------------------------------
(* The executable image of the target, scanned by Module::attach and by
   Addresses::init *)

\* main_module_address; the image runs a few bytes into the next page
ModuleBase == \h6FC0
ImageEnd == ModuleBase + \h47

\* the signatures, numbered as in scans
Sigs == <<GENGINE_1, GENGINE_2, FNAME_POOL[1], FNAME_POOL[2], FNAME_POOL[3]>>

\* where the image holds the code each signature describes; the displacement
\* field of the instruction GENGINE_2 ends at lies in the next page
Slots ==
    << ModuleBase, ModuleBase + \h39, ModuleBase + \h0E, ModuleBase + \h28,
       ModuleBase + \h1B >>

\* the address of the displacement field of the code at slot k
FieldOf(k) == Slots[k] + Sigs[k].offset

\* the displacement fields of the engine-singleton accesses and of the
\* name-pool accesses
EngineSigs == {1, 2}
NameSigs == {3, 4, 5}

\* displacements the linker may have put in a field: 16, -32 and 496
Disps ==
    { <<\h10, 0, 0, 0>>, <<\hE0, \hFF, \hFF, \hFF>>, <<\hF0, \h01, 0, 0>> }

\* the image with displacement d_engine in the fields of the engine-singleton
\* accesses and d_names in those of the name-pool accesses
ImageBytes(d_engine, d_names) ==
    [ a \in ModuleBase..ImageEnd |->
        IF \E k \in 1..Len(Sigs) : a \in FieldOf(k)..(FieldOf(k) + 3)
        THEN LET k == CHOOSE k \in 1..Len(Sigs) :
                          a \in FieldOf(k)..(FieldOf(k) + 3)
             IN  IF k \in EngineSigs THEN d_engine[a - FieldOf(k) + 1]
                 ELSE d_names[a - FieldOf(k) + 1]
        ELSE IF \E k \in 1..Len(Sigs) :
                    a \in Slots[k]..(Slots[k] + Len(Sigs[k].sig) - 1)
        THEN LET k == CHOOSE k \in 1..Len(Sigs) :
                          a \in Slots[k]..(Slots[k] + Len(Sigs[k].sig) - 1)
                 b == Sigs[k].sig[a - Slots[k] + 1]
             IN  IF b = AnyByte THEN 0 ELSE b
        ELSE 0 ]

\* what the executable header may give: the machine type (or no readable
\* header) and the size of the image (or none)
Machines == {"x86_64", "i386", "unknown", "unreadable"}
SizesOfImage == {None, Some(\h20), Some(\h40)}

\* Process::get_module_range of the main module
get_module_range(pe) ==
    IF pe.size_of_image.ok THEN Some(<<ModuleBase, pe.size_of_image.val>>)
    ELSE None

\* another build of the target: the code at slot k differs, or is as the
\* signature describes again
Patch(k) ==
    mem' = [mem EXCEPT !.cells[Slots[k]] =
                IF @ = Sigs[k].sig[1] THEN \hCC ELSE Sigs[k].sig[1]]

\* another build of the target: the fields of the accesses ks hold d
Relocate(ks, d) ==
    /\ mem' = [mem EXCEPT !.cells =
                 [a \in DOMAIN @ |->
                    IF \E k \in ks : a \in FieldOf(k)..(FieldOf(k) + 3)
                    THEN d[a - FieldOf(CHOOSE k \in ks :
                                 a \in FieldOf(k)..(FieldOf(k) + 3)) + 1]
                    ELSE @[a]]]
    /\ mem' # mem

\* the page after the one the image starts in is mapped, or is not
RemapNext ==
    mem' = [mem EXCEPT !.pages = IF PageOf(ImageEnd) \in @
                                 THEN @ \ {PageOf(ImageEnd)}
                                 ELSE @ \cup {PageOf(ImageEnd)}]

\* attach is called on the image of a 64-bit build, every signature present
AttachInit ==
    /\ \E d \in {<<\h10, 0, 0, 0>>} :
          mem = [ pages |-> {PageOf(ModuleBase), PageOf(ImageEnd)},
                  cells |-> ImageBytes(d, d) ]
    /\ att = [NoAttach EXCEPT
                !.pe = [machine |-> "x86_64", size_of_image |-> Some(\h40)]]
    /\ input = <<>>
    /\ LET p == new(input)
       IN  fields = p.fields /\ depth = p.depth /\ cache = p.cache
    /\ obs = NoCall
    /\ failed_lookup = 0
    /\ walk = IdleWalk
    /\ tick = NoTick

\* the target is another build, or its image is mapped differently
Relaunch ==
    /\ \/ /\ \/ \E k \in 1..Len(Sigs) : Patch(k)
             \/ \E ks \in {EngineSigs, NameSigs}, d \in Disps : Relocate(ks, d)
             \/ RemapNext
          /\ att' = [NoAttach EXCEPT !.pe = att.pe]
       \/ /\ \E machine \in Machines, size \in SizesOfImage :
                att' = [NoAttach EXCEPT
                          !.pe = [machine |-> machine, size_of_image |-> size]]
          /\ att'.pe # att.pe
          /\ UNCHANGED mem
    /\ UNCHANGED <<input, fields, depth, cache, obs, failed_lookup, walk, tick>>

\* a call of Module::attach
ModuleAttach ==
    /\ \E r \in {attach(mem, att.pe, ModuleBase)} :
          att' = [NoAttach EXCEPT !.pe = att.pe, !.called = "attach",
                                  !.module = r.module, !.scans = r.scans]
    /\ UNCHANGED <<mem, input, fields, depth, cache, obs, failed_lookup, walk, tick>>

\* a call of Addresses::init
AddressesInit ==
    /\ \E r \in {Addresses_init(mem, get_module_range(att.pe))} :
          att' = [NoAttach EXCEPT !.pe = att.pe, !.called = "init",
                                  !.g_engine = r]
    /\ UNCHANGED <<mem, input, fields, depth, cache, obs, failed_lookup, walk, tick>>

AttachNext == Relaunch \/ ModuleAttach \/ AddressesInit

AttachSpec == AttachInit /\ [][AttachNext]_vars

-----------------------------------------------------------------------------
(* Properties of the Module Locator, checked under AttachSpec *)

\* the value of the four bytes of a displacement field, as a signed integer
SignedDisp ==
    ( <<\h10, 0, 0, 0>> :> 16 ) @@ ( <<\hE0, \hFF, \hFF, \hFF>> :> 0 - 32 )
    @@ ( <<\hF0, \h01, 0, 0>> :> 496 )

\* C11: attach tries the signatures of each list in their listed order and
\* resolves each anchor from the first signature of its list that matches in
\* the module range; a signature is scanned for only when every earlier one of
\* its list did not match; attach returns none when no signature of the
\* engine-singleton list, or none of the name-pool list, matches.
C11_FirstMatchingSignature ==
    ( /\ att.called = "attach"
      /\ att.pe.machine \in {"x86_64", "i386"}
      /\ att.pe.size_of_image.ok ) =>
        LET range    == <<ModuleBase, att.pe.size_of_image.val>>
            hit(k)   == scan_process_range(mem, Sigs[k].sig, range)
            engine   == { k \in EngineSigs : hit(k).ok }
            names    == { k \in NameSigs : hit(k).ok }
            first(S) == CHOOSE k \in S : \A j \in S : k <= j
            F(k)     == hit(k).val + Sigs[k].offset
            from(k)  == { r.val : r \in { x \in { anchor(mem, F(k), 4),
                                                  anchor(mem, F(k), 8) } :
                                            x.ok } }
            scanned  == { att.scans[i] : i \in 1..Len(att.scans) }
        IN  /\ \A i \in 1..(Len(att.scans) - 1) :
                  att.scans[i] < att.scans[i + 1]
            /\ \A k \in scanned :
                  \A j \in 1..(k - 1) :
                      (j \in EngineSigs <=> k \in EngineSigs) =>
                          j \in scanned /\ ~hit(j).ok
            /\ (engine = {} \/ names = {}) => ~att.module.ok
            /\ engine = {} => att.scans = <<1, 2>>
            /\ att.module.ok =>
                  /\ att.module.g_engine \in from(first(engine))
                  /\ att.module.fname_base \in from(first(names))
                  /\ first(engine) \in scanned /\ first(names) \in scanned

\* attach returned a Module after the first signature of the engine list and
\* the first two of the name-pool list did not match
C11_Witness ==
    /\ att.called = "attach" /\ att.module.ok
    /\ att.scans = <<1, 2, 3, 4, 5>>

\* C12 as claimed: every anchor of attach and of Addresses::init is F + 4 +
\* disp, F the address of the displacement field and disp its signed value.
C12_AsClaimed ==
    LET range  == <<ModuleBase, att.pe.size_of_image.val>>
        hit(k) == scan_process_range(mem, Sigs[k].sig, range)
        F(k)   == hit(k).val + Sigs[k].offset
        disp(a) == SignedDisp[[j \in 1..4 |-> Cell(mem, a + j - 1)]]
        used(S) == CHOOSE k \in S : k \in { att.scans[i] :
                                              i \in 1..Len(att.scans) }
                                    /\ hit(k).ok
    IN  /\ (att.called = "attach" /\ att.module.ok) =>
              /\ att.module.g_engine =
                    F(used(EngineSigs)) + 4 + disp(F(used(EngineSigs)))
              /\ att.module.fname_base =
                    F(used(NameSigs)) + 4 + disp(F(used(NameSigs)))
        /\ (att.called = "init" /\ att.g_engine.ok) =>
              att.g_engine.val = F(2) + 4 + disp(F(2))

\* C12, amended: the anchor is F + 4 + disp for GENGINE_1 and the three
\* name-pool signatures, and F + 8 + disp for GENGINE_2 and for Addresses::init
\* (a 4-byte immediate follows the displacement field of that instruction);
\* disp is the signed value of the field.
C12_AnchorAfterInstruction ==
    LET range  == <<ModuleBase, att.pe.size_of_image.val>>
        hit(k) == scan_process_range(mem, Sigs[k].sig, range)
        F(k)   == hit(k).val + Sigs[k].offset
        disp(a) == SignedDisp[[j \in 1..4 |-> Cell(mem, a + j - 1)]]
        used(S) == CHOOSE k \in S : k \in { att.scans[i] :
                                              i \in 1..Len(att.scans) }
                                    /\ hit(k).ok
        after(k) == IF k = 2 THEN 8 ELSE 4
    IN  /\ (att.called = "attach" /\ att.module.ok) =>
              /\ att.module.g_engine =
                    F(used(EngineSigs)) + after(used(EngineSigs))
                        + disp(F(used(EngineSigs)))
              /\ att.module.fname_base =
                    F(used(NameSigs)) + 4 + disp(F(used(NameSigs)))
        /\ (att.called = "init" /\ att.g_engine.ok) =>
              att.g_engine.val = F(2) + 8 + disp(F(2))

\* attach resolved the engine singleton through GENGINE_2 and the name pool
\* through the second name-pool signature, both displacements negative
C12_Witness ==
    /\ att.called = "attach" /\ att.module.ok
    /\ att.scans = <<1, 2, 3, 4>>
    /\ att.module.g_engine = FieldOf(2) + 8 - 32
    /\ att.module.fname_base = FieldOf(4) + 4 - 32

\* C19 as claimed: with the pointer width determined, the image size read and
\* a signature of each list matching in the range, attach returns a Module.
C19_AsClaimed ==
    ( /\ att.called = "attach"
      /\ att.pe.machine \in {"x86_64", "i386"}
      /\ att.pe.size_of_image.ok ) =>
        LET range  == <<ModuleBase, att.pe.size_of_image.val>>
            hit(k) == scan_process_range(mem, Sigs[k].sig, range)
        IN  ( /\ \E k \in EngineSigs : hit(k).ok
              /\ \E k \in NameSigs : hit(k).ok ) => att.module.ok

\* C19, amended: attach returns a Module exactly when the pointer width is
\* determined, the image size is read, a signature of each list matches in
\* the range and the displacement field of the first matching signature of
\* each list can be read.
C19_FailsOnlyAsListed ==
    att.called = "attach" =>
        LET range    == <<ModuleBase, att.pe.size_of_image.val>>
            hit(k)   == scan_process_range(mem, Sigs[k].sig, range)
            first(S) == CHOOSE k \in S : hit(k).ok
                                         /\ \A j \in S : hit(j).ok => k <= j
            field(S) == hit(first(S)).val + Sigs[first(S)].offset
            readable(a) == \A j \in 0..3 : Mapped(mem, a + j)
        IN  att.module.ok <=>
              /\ att.pe.machine \in {"x86_64", "i386"}
              /\ att.pe.size_of_image.ok
              /\ \E k \in EngineSigs : hit(k).ok
              /\ \E k \in NameSigs : hit(k).ok
              /\ readable(field(EngineSigs))
              /\ readable(field(NameSigs))

\* attach returned a Module of pointer size 4 for a 32-bit image
C19_Witness ==
    /\ att.called = "attach" /\ att.module.ok
    /\ att.pe.machine = "i386" /\ att.module.pointer_size = 4

-----------------------------------------------------------------------------
(* The name pool of the target, decoded by UProperty::get_fname *)

\* the second chunk of the pool, and two entries of it: a long one, and one
\* that ends 14 bytes before the end of its page
Chunk1 == \h2F00
IndexLong == \h10
IndexEdge == \h78
EntryLong == Chunk1 + IndexLong * 2
EntryEdge == Chunk1 + IndexEdge * 2

\* the bytes of the long entry, none of them zero
LongName == [j \in 1..130 |-> 65 + (j % 26)]

\* the name handles (index, chunk) a property may hold
Handles == { <<IndexPw, 0>>, <<IndexLv, 0>>, <<IndexLong, 1>>, <<IndexEdge, 1>> }

\* the headers the long entry may have: length * 64 + flags
Headers == { 6 * 64, 6 * 64 + 63, 5, 128 * 64, 130 * 64 + 1 }

\* the pool of BaseCells with its second chunk, and PropA
NameCells ==
    ( Module.fname_base + 8 * 2 :> Chunk0 ) @@
    ( Module.fname_base + 8 * 3 :> Chunk1 ) @@
    ( Chunk0 :> 2 * 64 + 1 ) @@ ( Chunk0 + 2 :> 80 ) @@ ( Chunk0 + 3 :> 119 ) @@
    ( Chunk0 + 4 :> 2 * 64 ) @@ ( Chunk0 + 6 :> 76 ) @@ ( Chunk0 + 7 :> 118 ) @@
    ( EntryLong :> 6 * 64 ) @@
    [ a \in (EntryLong + 2)..(EntryLong + 131) |-> LongName[a - EntryLong - 1] ]
    @@
    ( EntryEdge :> 6 * 64 + 1 ) @@
    [ a \in (EntryEdge + 2)..(EntryEdge + 7) |-> LongName[a - EntryEdge - 1] ]
    @@
    ( PropA + \h28 :> IndexPw ) @@ ( PropA + \h2A :> 0 )

\* the target interns other names
NameChange ==
    \/ \E h \in Handles :
          /\ mem' = [mem EXCEPT !.cells[PropA + \h28] = h[1],
                                !.cells[PropA + \h2A] = h[2]]
          /\ mem' # mem
    \/ \E h \in Headers :
          /\ mem' = [mem EXCEPT !.cells[EntryLong] = h]
          /\ mem' # mem
    \/ mem' = [mem EXCEPT !.cells[EntryLong + 4] =
                              IF @ = 0 THEN LongName[3] ELSE 0]
    \/ \E p \in 1..4 :
          mem' = [mem EXCEPT !.pages = IF p \in @ THEN @ \ {p} ELSE @ \cup {p}]

NameInit ==
    /\ mem = [pages |-> {1, 2, 3, 4}, cells |-> NameCells]
    /\ input = <<>>
    /\ LET p == new(input)
       IN  fields = p.fields /\ depth = p.depth /\ cache = p.cache
    /\ obs = NoCall
    /\ failed_lookup = 0
    /\ walk = IdleWalk
    /\ att = NoAttach
    /\ tick = NoTick

\* the memory of the target changes between two calls
NameStore ==
    /\ NameChange
    /\ obs' = NoCall
    /\ UNCHANGED <<input, fields, depth, cache, failed_lookup, walk, att, tick>>

\* a call of UProperty::get_fname::<CSTR> on PropA
GetFname ==
    /\ \E r \in {get_fname(mem, Module, PropA, CSTR)} :
          obs' = [NoCall EXCEPT !.op = "get_fname",
                                !.ret = IF r.ok THEN "some" ELSE "none",
                                !.val = r.val, !.reads = r.reads]
    /\ UNCHANGED <<mem, input, fields, depth, cache, failed_lookup, walk, att, tick>>

NameNext == NameStore \/ GetFname

NameSpec == NameInit /\ [][NameNext]_vars

-----------------------------------------------------------------------------
(* Properties of the Name Resolver, checked under NameSpec *)

\* C13 as claimed: the chunk slot is at fname_base + pointer_size * (chunk +
\* 2), the entry at chunk_base + index * 2, the decoded string has the length
\* of the header shifted right by 6 bits and its bytes are the bytes that follow
\* the 2-byte header; a read failure at a hop yields none.
C13_AsClaimed ==
    obs.op = "get_fname" =>
        LET index  == Cell(mem, PropA + \h28)
            chunk  == Cell(mem, PropA + \h2A)
            slot   == \h1100 + 8 * (chunk + 2)
            entry  == Cell(mem, slot) + index * 2
            length == Cell(mem, entry) \div 64
        IN  /\ obs.ret = "some" =>
                  obs.val = [j \in 1..length |-> Cell(mem, entry + 1 + j)]
            /\ ( \/ ~Mapped(mem, PropA + \h28) \/ ~Mapped(mem, slot)
                 \/ ~Mapped(mem, entry)
                 \/ \E j \in 1..length : ~Mapped(mem, entry + 1 + j) ) =>
                  obs.ret = "none"

\* C13, amended: the decoded string is the first min(length, 128) bytes that
\* follow the 2-byte header, cut at the first zero byte among them; the call
\* yields none exactly when the name handle, the chunk slot, the header or
\* the 128 bytes that follow the header cannot be read.
C13_DecodedName ==
    obs.op = "get_fname" =>
        LET index  == Cell(mem, PropA + \h28)
            chunk  == Cell(mem, PropA + \h2A)
            slot   == \h1100 + 8 * (chunk + 2)
            entry  == Cell(mem, slot) + index * 2
            length == Cell(mem, entry) \div 64
            kept   == IF length < 128 THEN length ELSE 128
            zeros  == { j \in 1..kept : Cell(mem, entry + 1 + j) = 0 }
            cut    == IF zeros = {} THEN kept
                      ELSE (CHOOSE j \in zeros : \A z \in zeros : j <= z) - 1
        IN  /\ obs.ret = "some" =>
                  obs.val = [j \in 1..cut |-> Cell(mem, entry + 1 + j)]
            /\ obs.ret = "none" <=>
                  \/ ~Mapped(mem, PropA + \h28) \/ ~Mapped(mem, slot)
                  \/ ~Mapped(mem, entry)
                  \/ \E j \in 1..128 : ~Mapped(mem, entry + 1 + j)

\* a header encoding length 6 with flag bits set, followed by 6 known bytes,
\* was decoded to exactly those 6 bytes
C13_Witness ==
    /\ obs.op = "get_fname" /\ obs.ret = "some"
    /\ Cell(mem, PropA + \h28) = IndexLong /\ Cell(mem, PropA + \h2A) = 1
    /\ Cell(mem, EntryLong) = 6 * 64 + 63
    /\ obs.val = <<66, 67, 68, 69, 70, 71>>

-----------------------------------------------------------------------------
(* The auto splitter (src/src/lib.rs): watchers and update_loop *)

\* b"/Game/Maps/Campaign/FrontEnd/FrontEnd"
FrontEnd ==
    << 47, 71, 97, 109, 101, 47, 77, 97, 112, 115, 47, 67, 97, 109, 112, 97,
       105, 103, 110, 47, 70, 114, 111, 110, 116, 69, 110, 100, 47, 70, 114,
       111, 110, 116, 69, 110, 100 >>

\* b"/Game/Maps/Campaign/District_01/District_01"
District_01 ==
    << 47, 71, 97, 109, 101, 47, 77, 97, 112, 115, 47, 67, 97, 109, 112, 97,
       105, 103, 110, 47, 68, 105, 115, 116, 114, 105, 99, 116, 95, 48, 49,
       47, 68, 105, 115, 116, 114, 105, 99, 116, 95, 48, 49 >>

\* b"/Game/Maps/Campaign/District_02/District_02"
District_02 ==
    << 47, 71, 97, 109, 101, 47, 77, 97, 112, 115, 47, 67, 97, 109, 112, 97,
       105, 103, 110, 47, 68, 105, 115, 116, 114, 105, 99, 116, 95, 48, 50,
       47, 68, 105, 115, 116, 114, 105, 99, 116, 95, 48, 50 >>

\* Watchers::default(): no watcher holds a pair
Watchers_default ==
    [ is_loading |-> [ok |-> FALSE, old |-> FALSE, current |-> FALSE],
      player_exp |-> [ok |-> FALSE, old |-> 0, current |-> 0],
      level      |-> [ok |-> FALSE, old |-> "MainMenu",
                      current |-> "MainMenu"] ]

\* Watcher::update_infallible(value)
update_infallible(watcher, value) ==
    IF watcher.ok
    THEN [ok |-> TRUE, old |-> watcher.current, current |-> value]
    ELSE [ok |-> TRUE, old |-> value, current |-> value]

\* the initial current_level that forgets the level of the previous tick
previous_level_forgotten(watchers) == "MainMenu"

\* `match &watchers.level.pair { Some(x) => x.current, _ => Map::default() }`
previous_level(watchers) ==
    IF watchers.level.ok THEN watchers.level.current ELSE "MainMenu"

\* process.read::<[u16; n]>(a)
read_u16s(m, a, n) ==
    IF Mapped(m, a) /\ Mapped(m, a + 2 * n - 1)
    THEN Some([j \in 1..n |-> Cell(m, a + 2 * (j - 1))])
    ELSE None

\* the match on the map name: every code unit cut to a byte, the name ended
\* at the first zero byte
map_of(map_name, current_level) ==
    Bind([j \in 1..Len(map_name) |-> map_name[j] % 256], LAMBDA map :
        LET name == SubSeq(map, 1, NulCut(map, 1, Len(map)))
        IN  IF name = FrontEnd THEN "MainMenu"
            ELSE IF name = District_01 THEN "RedfallCommons"
            ELSE IF name = District_02 THEN "BurialPoint"
            ELSE current_level)

\* a read at pointer + offset, when the pointer was read
read_at(m, pointer, offset) ==
    IF pointer.ok THEN Read(m, pointer.val + offset) ELSE None

\* update_loop: the watchers after the tick
update_loop(m, addresses, watchers) ==
    LET g_engine       == Read(m, addresses.g_engine)
        game_view_port == read_at(m, g_engine, \h7B8)
        world          == read_at(m, game_view_port, \h78)
        level          == read_at(m, world, \h4B8)
        current_level  ==
            IF ~level.ok THEN previous_level(watchers)
            ELSE Bind(read_u16s(m, level.val, 100), LAMBDA map_name :
                   IF map_name.ok
                   THEN map_of(map_name.val, previous_level(watchers))
                   ELSE previous_level(watchers))
        game_instance  == read_at(m, game_view_port, \h80)
        local_players  == IF current_level # "MainMenu"
                          THEN read_at(m, game_instance, \h38) ELSE None
        player0        == read_at(m, local_players, 0)
        player_controller == read_at(m, player0, \h30)
        pawn           == read_at(m, player_controller, \h268)
        experience     == read_at(m, pawn, \hDC0)
        exp            == read_at(m, experience, \hE0)
        player_exp     == IF exp.ok THEN exp.val ELSE 0
        ark_net_client_matchmaking == read_at(m, game_instance, \h8A8)
        no_of_players  == read_at(m, ark_net_client_matchmaking, \h60)
        is_coop        == no_of_players.ok /\ no_of_players.val > 0
        load_addr      == read_at(m, game_instance,
                                  IF is_coop THEN \h520 ELSE \h560)
        is_loading     == IF load_addr.ok
                          THEN (IF is_coop THEN current_level = "MainMenu"
                                ELSE load_addr.val # 0)
                          ELSE TRUE
    IN  [ is_loading |-> update_infallible(watchers.is_loading, is_loading),
          level      |-> update_infallible(watchers.level, current_level),
          player_exp |-> update_infallible(watchers.player_exp, player_exp) ]

\* a start that does not ask for the loading flag of the tick before
start_no_transition(watchers, settings) ==
    IF ~settings.start THEN FALSE
    ELSE IF ~watchers.is_loading.ok THEN FALSE
    ELSE IF ~watchers.level.ok THEN FALSE
    ELSE IF ~watchers.player_exp.ok THEN FALSE
    ELSE /\ ~watchers.is_loading.current
         /\ watchers.level.current = "RedfallCommons"
         /\ watchers.player_exp.current = 0

\* fn start
start(watchers, settings) ==
    IF ~settings.start THEN FALSE
    ELSE IF ~watchers.is_loading.ok THEN FALSE
    ELSE IF ~watchers.level.ok THEN FALSE
    ELSE IF ~watchers.player_exp.ok THEN FALSE
    ELSE /\ ~watchers.is_loading.current /\ watchers.is_loading.old
         /\ watchers.level.current = "RedfallCommons"
         /\ watchers.player_exp.current = 0

\* fn split
split(watchers, settings) == FALSE

\* fn reset
reset(watchers, settings) == FALSE

\* fn is_loading: Option<bool>
is_loading(watchers, settings) ==
    IF watchers.is_loading.ok THEN Some(watchers.is_loading.current)
    ELSE [ok |-> FALSE, val |-> FALSE]

\* fn game_time: always None
game_time(watchers, settings) == None

-----------------------------------------------------------------------------
(* The main loop of the auto splitter (src/src/lib.rs, fn main) *)

TimerStates == {"NotRunning", "Running", "Paused", "Ended"}

BoolStr(b) == IF b THEN "true" ELSE "false"

\* a command that pauses game time whatever the loading flag
follow_loading_pause(watchers, settings) ==
    << <<"timer::pause_game_time", "">> >>

\* the game-time command that follows the loading flag, when there is one
follow_loading(watchers, settings) ==
    LET l == is_loading(watchers, settings)
    IN  IF ~l.ok THEN <<>>
        ELSE IF l.val THEN << <<"timer::pause_game_time", "">> >>
        ELSE << <<"timer::resume_game_time", "">> >>

\* a test that lets the in-run actions run whatever the timer state
in_run_always(timer_state) == TRUE

\* `timer_state == TimerState::Running || timer_state == TimerState::Paused`
in_run(timer_state) == timer_state = "Running" \/ timer_state = "Paused"

\* the inner loop from its read of the timer state to next_tick: the state
\* of main and of the timer after it, and the calls made in order
timer_actions(st, timer_state) ==
    LET w  == st.watchers
        r  == reset(w, st.settings)
        s  == split(w, st.settings)
        in_run_log ==
            IF in_run(timer_state)
            THEN << <<"is_loading", "">> >>
                 \o follow_loading(w, st.settings)
                 \o << <<"game_time", "">> >>
                 \o (IF game_time(w, st.settings).ok
                     THEN << <<"timer::set_game_time", "">> >> ELSE <<>>)
                 \o << <<"reset", BoolStr(r)>> >>
                 \o (IF r THEN << <<"timer::reset", "">> >>
                     ELSE << <<"split", BoolStr(s)>> >>
                          \o (IF s THEN << <<"timer::split", "">> >>
                              ELSE <<>>))
            ELSE <<>>
        timer1 == IF in_run(timer_state) /\ r THEN "NotRunning"
                  ELSE timer_state
        go == timer1 = "NotRunning" /\ start(w, st.settings)
        start_log ==
            << <<"state", timer1>> >>
            \o (IF timer1 = "NotRunning"
                THEN << <<"start", BoolStr(go)>> >> ELSE <<>>)
            \o (IF go
                THEN << <<"timer::start", "">>,
                        <<"timer::pause_game_time", "">> >>
                     \o follow_loading(w, st.settings)
                ELSE <<>>)
    IN  [st EXCEPT
           !.timer = IF go THEN "Running" ELSE timer1,
           !.log = st.log \o << <<"state", timer_state>> >>
                   \o in_run_log \o start_log]

\* the inner loop up to its read of the timer state: the call of update_loop
loop_body(st, m) ==
    [st EXCEPT
       !.watchers = update_loop(m, st.addresses, st.watchers),
       !.ticks = IF st.ticks < 2 THEN st.ticks + 1 ELSE 2,
       !.log = << <<"update_loop", "">> >>]

\* `retry(|| Addresses::init(&process))`, polled once; the inner loop is
\* entered in the same poll when it succeeds
init_step(st, m, pe) ==
    Bind(Addresses_init(m, get_module_range(pe)), LAMBDA r :
        IF r.ok
        THEN loop_body([st EXCEPT !.pc = "loop",
                           !.addresses = [ok |-> TRUE, g_engine |-> r.val]],
                       m)
        ELSE [st EXCEPT !.pc = "init"])

\* a block entered with the watchers of the attachment before
entered_stale(st) ==
    [st EXCEPT !.pc = "init", !.alive = TRUE, !.ticks = 0,
               !.addresses = [ok |-> FALSE, g_engine |-> 0]]

\* the async block given to until_closes is entered:
\* `let mut watchers = Watchers::default();`
entered(st) ==
    [st EXCEPT !.pc = "init", !.alive = TRUE, !.ticks = 0,
               !.watchers = Watchers_default,
               !.addresses = [ok |-> FALSE, g_engine |-> 0]]

\* `retry(|| PROCESS_NAMES.into_iter().find_map(Process::attach))`, polled
\* once; the block is entered in the same poll when it succeeds
attach_step(st, m, pe) ==
    IF st.open THEN init_step(entered(st), m, pe)
    ELSE [st EXCEPT !.pc = "attach", !.alive = FALSE]

\* one poll of main by the runtime
poll(st, m, pe) ==
    LET s0 == [st EXCEPT !.log = <<>>]
    IN  IF s0.pc = "attach" THEN attach_step(s0, m, pe)
        ELSE IF ~s0.alive THEN attach_step(s0, m, pe)
        ELSE IF s0.pc = "init" THEN init_step(s0, m, pe)
        ELSE loop_body(s0, m)

-----------------------------------------------------------------------------
(* The game the main loop is run against *)

\* two builds of the game: the displacement of the engine pointer's store
Builds == << <<\h10, 0, 0, 0>>, <<\hF0, \h01, 0, 0>> >>

\* where a build keeps its engine pointer
EngineSlot(b) == FieldOf(2) + 8 + Builds[b][1] + 256 * Builds[b][2]

\* the objects of the game on the way from the engine to the watched values
Game ==
    [ engine |-> \hA000, view_port |-> \hA800, world |-> \hB000,
      level |-> \hB800, instance |-> \hC000, matchmaking |-> \hC900,
      local_players |-> \hD000, player0 |-> \hD008, controller |-> \hD040,
      pawn |-> \hD100, experience |-> \hD300 ]

\* b"/Game": the name of no map the match knows
OtherMap == << 47, 71, 97, 109, 101 >>

\* what the game is doing: the map loaded, the load flag, the experience of
\* the player, the number of players of the session, and what cannot be read
Sit(map, load, exp, players, broken) ==
    [map |-> map, load |-> load, exp |-> exp, players |-> players,
     broken |-> broken]

Situations ==
    { Sit(FrontEnd, 0, 0, 0, "none"),
      Sit(FrontEnd, 0, 0, 0, "image"),
      Sit(District_01, 1, 0, 0, "none"),
      Sit(District_01, 0, 0, 0, "none"),
      Sit(District_01, 0, 5, 0, "none"),
      Sit(District_01, 0, 5, 0, "pawn"),
      Sit(District_01, 0, 5, 0, "instance"),
      Sit(District_01, 0, 5, 0, "world"),
      Sit(District_01, 0, 5, 0, "image"),
      Sit(District_01, 1, 5, 1, "none"),
      Sit(District_02, 0, 5, 0, "none"),
      Sit(OtherMap, 0, 5, 0, "none") }

\* the longest map name, in code units
NameLen == 43

\* the cells that differ from one situation to another
SituationCells(s) ==
    [ a \in { Game.level + 2 * (j - 1) : j \in 1..NameLen } |->
        LET j == (a - Game.level) \div 2 + 1
        IN  IF j <= Len(s.map) THEN s.map[j] ELSE 0 ]
 @@ (Game.view_port + \h78 :>
        IF s.broken = "world" THEN Wild ELSE Game.world)
 @@ (Game.view_port + \h80 :>
        IF s.broken = "instance" THEN Wild ELSE Game.instance)
 @@ (Game.controller + \h268 :>
        IF s.broken = "pawn" THEN Wild ELSE Game.pawn)
 @@ (Game.experience + \hE0 :> s.exp)
 @@ (Game.matchmaking + \h60 :> s.players)
 @@ (Game.instance + \h520 :> s.load)
 @@ (Game.instance + \h560 :> s.load)

\* the pages that can be read in a situation
SituationPages(s) ==
    { PageOf(Game.engine), PageOf(Game.world), PageOf(Game.instance),
      PageOf(Game.pawn) }
    \cup (IF s.broken = "image" THEN {}
          ELSE { PageOf(ModuleBase), PageOf(ImageEnd) })

\* the cells of build b that no situation changes
BuildCells(b) ==
    (EngineSlot(b) :> Game.engine)
 @@ (Game.engine + \h7B8 :> Game.view_port)
 @@ (Game.world + \h4B8 :> Game.level)
 @@ (Game.instance + \h38 :> Game.local_players)
 @@ (Game.local_players :> Game.player0)
 @@ (Game.player0 + \h30 :> Game.controller)
 @@ (Game.pawn + \hDC0 :> Game.experience)
 @@ (Game.instance + \h8A8 :> Game.matchmaking)
 @@ ImageBytes(Builds[b], Builds[b])

\* the memory of a running game, by build and situation
GameMemory ==
    [ b \in 1..Len(Builds), s \in Situations |->
        [ pages |-> SituationPages(s),
          cells |-> SituationCells(s) @@ BuildCells(b) ] ]

\* no process: nothing can be read
NoMemory == [pages |-> {}, cells |-> <<>>]

TickInit ==
    /\ mem = NoMemory
    /\ att = [NoAttach EXCEPT
                !.pe = [machine |-> "x86_64", size_of_image |-> Some(\h40)]]
    /\ \E start_setting \in BOOLEAN :
          tick = [ pc |-> "attach", open |-> FALSE, alive |-> FALSE,
                   build |-> 0, watchers |-> Watchers_default,
                   addresses |-> [ok |-> FALSE, g_engine |-> 0],
                   timer |-> "NotRunning",
                   settings |-> [start |-> start_setting],
                   ticks |-> 0, log |-> <<>> ]
    /\ input = <<>>
    /\ LET p == new(input)
       IN  fields = p.fields /\ depth = p.depth /\ cache = p.cache
    /\ obs = NoCall
    /\ failed_lookup = 0
    /\ walk = IdleWalk

\* the game is launched at its main menu, its image readable or not yet:
\* the first build, and later any build
Launch ==
    /\ ~tick.open
    /\ \E b \in 1..(IF tick.build = 0 THEN 1 ELSE Len(Builds)),
          s \in { Sit(FrontEnd, 0, 0, 0, "none"),
                   Sit(FrontEnd, 0, 0, 0, "image") } :
          /\ mem' = GameMemory[b, s]
          /\ tick' = [tick EXCEPT !.open = TRUE, !.build = b]
    /\ UNCHANGED <<att, input, fields, depth, cache, obs, failed_lookup, walk>>

\* the game moves on
GameChange ==
    /\ tick.open
    /\ \E s \in Situations :
          /\ mem' = GameMemory[tick.build, s]
          /\ mem' # mem
    /\ UNCHANGED <<tick, att, input, fields, depth, cache, obs,
                   failed_lookup, walk>>

\* the game exits
Exit ==
    /\ tick.open
    /\ mem' = NoMemory
    /\ tick' = [tick EXCEPT !.open = FALSE, !.alive = FALSE]
    /\ UNCHANGED <<att, input, fields, depth, cache, obs, failed_lookup, walk>>

\* the runtime polls main: main runs to its next await; when it is in the
\* inner loop, timer::state() reports what the user has made of the timer
Poll ==
    /\ \E p \in {poll(tick, mem, att.pe)}, t \in TimerStates :
          tick' = IF p.pc = "loop" THEN timer_actions(p, t)
                  ELSE [p EXCEPT !.timer = t]
    /\ UNCHANGED <<mem, att, input, fields, depth, cache, obs,
                   failed_lookup, walk>>

TickNext == Launch \/ GameChange \/ Exit \/ Poll

TickSpec == TickInit /\ [][TickNext]_vars

-----------------------------------------------------------------------------
(* Properties of the main loop *)

\* a poll in which update_loop ran
UpdateStep == mem' = mem /\ tick'.pc = "loop" /\ tick'.log # <<>>

\* the poll before ran update_loop on the same attachment
HadTick == tick.pc = "loop" /\ tick.alive

\* the reads on the way to the map name all succeed
LevelRead(m, g_engine) ==
    LET level == read_pointer_path(m, g_engine, <<0, \h7B8, \h78, \h4B8>>, 4)
    IN  level.ok /\ Mapped(m, level.val) /\ Mapped(m, level.val + 199)

\* the reads on the way to the load flag all succeed
LoadRead(m, g_engine) ==
    LET players == read_pointer_path(m, g_engine,
                                     <<0, \h7B8, \h80, \h8A8, \h60>>, 5)
        flag    == IF players.ok /\ players.val > 0 THEN \h520 ELSE \h560
    IN  read_pointer_path(m, g_engine, <<0, \h7B8, \h80, flag>>, 4).ok

\* the reads on the way to the experience of the player all succeed
ExpRead(m, g_engine) ==
    read_pointer_path(m, g_engine,
        <<0, \h7B8, \h80, \h38, 0, \h30, \h268, \hDC0, \hE0>>, 9).ok

\* C14 as stated: when a read on the way to a watched value fails, the
\* watcher receives as current the value it held as current on the tick before
C14_AsClaimed ==
    [][ UpdateStep /\ HadTick =>
          LET g == tick'.addresses.g_engine
          IN  /\ ~LevelRead(mem, g) =>
                   tick'.watchers.level.current = tick.watchers.level.current
              /\ ~LoadRead(mem, g) =>
                   tick'.watchers.is_loading.current
                     = tick.watchers.is_loading.current
              /\ ~ExpRead(mem, g) =>
                   tick'.watchers.player_exp.current
                     = tick.watchers.player_exp.current ]_vars

\* C14 (amended): when a read on the way to a watched value fails, the level
\* watcher receives the level it held as current on the tick before (MainMenu
\* on the first tick of an attachment), the loading watcher receives true and
\* the experience watcher receives 0
C14_DefaultsOnFailure ==
    [][ UpdateStep =>
          LET g == tick'.addresses.g_engine
          IN  /\ ~LevelRead(mem, g) =>
                   tick'.watchers.level.current
                     = IF HadTick THEN tick.watchers.level.current
                       ELSE "MainMenu"
              /\ ~LoadRead(mem, g) => tick'.watchers.is_loading.current
              /\ ~ExpRead(mem, g) => tick'.watchers.player_exp.current = 0
      ]_vars

\* after a tick in which no watched value could be read: the level is the one
\* of the tick before, the loading flag went from false to true and the
\* experience from 5 to 0
C14_Witness ==
    /\ tick.pc = "loop" /\ tick.alive /\ tick.ticks = 2
    /\ ~LevelRead(mem, tick.addresses.g_engine)
    /\ ~LoadRead(mem, tick.addresses.g_engine)
    /\ ~ExpRead(mem, tick.addresses.g_engine)
    /\ tick.watchers.level.old = "RedfallCommons"
    /\ tick.watchers.level.current = "RedfallCommons"
    /\ ~tick.watchers.is_loading.old /\ tick.watchers.is_loading.current
    /\ tick.watchers.player_exp.old = 5
    /\ tick.watchers.player_exp.current = 0

\* the positions of the log at which call c was made
Calls(c) == { i \in 1..Len(tick.log) : tick.log[i][1] = c }

\* the timer state read last before position i of the log
StateBefore(i) ==
    LET k == CHOOSE k \in Calls("state") :
                 k < i /\ \A j \in Calls("state") : j < i => j <= k
    IN  tick.log[k][2]

\* C16: in every tick update_loop runs first; is_loading, game_time and reset
\* run only when the timer state read after the update is Running or Paused;
\* split is evaluated only after reset returned false, and timer::reset and
\* timer::split are never both called; start is evaluated, and timer::start
\* called, only when the timer state read last before it is NotRunning
C16_OrderOfActions ==
    tick.log # <<>> =>
        /\ Calls("update_loop") = {1}
        /\ Len(tick.log) >= 2 /\ tick.log[2][1] = "state"
        /\ \A i \in 1..Len(tick.log) :
              /\ tick.log[i][1] \in {"is_loading", "game_time", "reset",
                                     "split", "timer::set_game_time",
                                     "timer::reset", "timer::split"}
                   => i > 2 /\ tick.log[2][2] \in {"Running", "Paused"}
              /\ tick.log[i][1] = "split"
                   => i > 1 /\ tick.log[i - 1] = <<"reset", "false">>
              /\ tick.log[i][1] \in {"start", "timer::start"}
                   => /\ \E k \in Calls("state") : 2 < k /\ k < i
                      /\ StateBefore(i) = "NotRunning"
        /\ Calls("timer::reset") = {} \/ Calls("timer::split") = {}

\* a tick with the timer paused: the in-run actions ran, split after reset,
\* and start was not evaluated
C16_Witness ==
    /\ tick.log # <<>>
    /\ tick.log[2] = <<"state", "Paused">>
    /\ Calls("is_loading") # {} /\ Calls("game_time") # {}
    /\ Calls("reset") # {} /\ Calls("split") # {}
    /\ Calls("start") = {}

\* C17: an attachment starts from scratch: until the scan of the process
\* attached to has succeeded no tick has run and the watchers are empty; the
\* ticks use the address scanned on the running process; and the first tick
\* of an attachment finds no pair in the watchers, so that each old value is
\* the current one
C17_FreshAttachment ==
    /\ tick.pc = "init" =>
          /\ tick.ticks = 0 /\ tick.log = <<>>
          /\ tick.watchers = Watchers_default
          /\ ~tick.addresses.ok
    /\ tick.pc = "loop" /\ tick.alive =>
          /\ tick.addresses.ok
          /\ tick.addresses.g_engine = EngineSlot(tick.build)
          /\ tick.ticks >= 1
    /\ tick.pc = "loop" /\ tick.ticks = 1 =>
          /\ tick.watchers.is_loading.ok /\ tick.watchers.level.ok
          /\ tick.watchers.player_exp.ok
          /\ tick.watchers.is_loading.old = tick.watchers.is_loading.current
          /\ tick.watchers.level.old = tick.watchers.level.current
          /\ tick.watchers.player_exp.old = tick.watchers.player_exp.current

\* the first tick of a later attachment, on the other build of the game
C17_Witness ==
    /\ tick.pc = "loop" /\ tick.alive
    /\ tick.ticks = 1 /\ tick.build = 2
    /\ tick.addresses.g_engine = EngineSlot(2)
    /\ tick.watchers.level.ok

\* C21: timer::start is called in a tick only if the start setting is on, the
\* timer state read before it is NotRunning, the loading watcher held true as
\* current on the tick before of this attachment and receives false, the
\* level received is RedfallCommons and the experience received is 0; so
\* never on the first tick of an attachment
C21_StartOnlyOnLoadFinished ==
    [][ (UpdateStep /\ \E i \in 1..Len(tick'.log) :
                          tick'.log[i][1] = "timer::start") =>
          /\ tick'.settings.start
          /\ \E i \in 2..Len(tick'.log) :
                /\ tick'.log[i] = <<"timer::start", "">>
                /\ tick'.log[i - 1] = <<"start", "true">>
                /\ i > 2 /\ tick'.log[i - 2] = <<"state", "NotRunning">>
          /\ HadTick
          /\ tick.watchers.is_loading.ok /\ tick.watchers.is_loading.current
          /\ ~tick'.watchers.is_loading.current
          /\ tick'.watchers.level.current = "RedfallCommons"
          /\ tick'.watchers.level.current \notin {"MainMenu", "BurialPoint"}
          /\ tick'.watchers.player_exp.current = 0
          /\ tick'.ticks >= 2 ]_vars

\* a tick that started the timer: the load into Redfall Commons has finished
\* with no experience gained
C21_Witness ==
    /\ tick.pc = "loop" /\ tick.alive /\ tick.ticks = 2
    /\ Calls("timer::start") # {}
    /\ tick.timer = "Running"
    /\ tick.watchers.is_loading.old /\ ~tick.watchers.is_loading.current
    /\ tick.watchers.level.current = "RedfallCommons"
    /\ tick.watchers.player_exp.current = 0

\* the positions of the log at which game time was paused or resumed
GameTimeCalls ==
    Calls("timer::pause_game_time") \cup Calls("timer::resume_game_time")

\* the last game-time command of the tick
LastGameTimeCall ==
    tick.log[CHOOSE k \in GameTimeCalls : \A j \in GameTimeCalls : j <= k][1]

\* C22: at the end of a tick in which the timer was Running or Paused, or was
\* started, the last game-time command is pause_game_time when the loading
\* flag of the tick is true and resume_game_time when it is false; in a tick
\* that read NotRunning and did not start the timer no game-time command is
\* issued
C22_GameTimeFollowsLoading ==
    tick.log # <<>> =>
        /\ (tick.log[2][2] \in {"Running", "Paused"}
               \/ Calls("timer::start") # {})
             => /\ GameTimeCalls # {}
                /\ LastGameTimeCall
                     = IF tick.watchers.is_loading.current
                       THEN "timer::pause_game_time"
                       ELSE "timer::resume_game_time"
        /\ (tick.log[2][2] = "NotRunning" /\ Calls("timer::start") = {})
             => GameTimeCalls = {}

\* a tick with the timer running while the game loads: game time was paused
C22_Witness ==
    /\ tick.log # <<>>
    /\ tick.log[2] = <<"state", "Running">>
    /\ tick.watchers.is_loading.current
    /\ GameTimeCalls # {}
    /\ LastGameTimeCall = "timer::pause_game_time"

====
